---------------------------- MODULE Spec2Model ----------------------------
(***************************************************************************)
(* A model of src/src/least_squares.rs (polars_ols): the dense solver      *)
(* primitives, the direct solvers' parameter checks, the elastic-net       *)
(* coordinate descent, the recursive least-squares driver and the rolling  *)
(* window OLS engine.                                                      *)
(*                                                                         *)
(* Numbers.  An f64 is modelled in exact arithmetic: a finite value is a   *)
(* rational <<n, d>> in lowest terms with d > 0; NaN, +inf and -inf are    *)
(* <<0, 0>>, <<1, 0>> and <<-1, 0>> and follow the IEEE rules (NaN is      *)
(* absorbing and compares false, 1/0 = inf, 1/inf = 0, inf - inf = NaN).   *)
(* Rounding and the sign of zero are not modelled; where the outcome of a  *)
(* factorization depends on rounding, both outcomes are possible and the   *)
(* values it returns are Unspecified.  A vector is a sequence of numbers,  *)
(* a matrix a sequence of rows.                                            *)
(***************************************************************************)
EXTENDS Integers, Sequences, FiniteSets, TLC

---------------------------------------------------------------------------
(* Exact arithmetic *)

\* An f64 is <<n, d>>: the rational n/d in lowest terms when d > 0, and for
\* d = 0 one of the three values below. Finite values are exact (no rounding)
\* and zero has no sign (1/0 is +inf).
NaN == <<0, 0>>

PosInf == <<1, 0>>

NegInf == <<-1, 0>>

\* a value that depends on the rounding errors of a factorization of an
\* exactly singular matrix: any f64
Unspecified == <<0, -1>>

Abs(a) == IF a < 0 THEN -a ELSE a

RECURSIVE GCD(_, _)
GCD(a, b) == IF b = 0 THEN a ELSE GCD(b, a % b)

\* the rational n/d in lowest terms; n/0 is +inf, -inf or NaN by the sign of n
Frac(n, d) ==
    IF d = 0 THEN (IF n > 0 THEN PosInf ELSE IF n < 0 THEN NegInf ELSE NaN)
    ELSE LET g == GCD(Abs(n), Abs(d))
             s == IF d < 0 THEN -1 ELSE 1
         IN  <<(s * n) \div g, (s * d) \div g>>

R(n) == <<n, 1>>

IsFinite(a) == a[2] > 0

IsNaN(a) == a = NaN

IsInf(a) == a = PosInf \/ a = NegInf

\* -1, 0 or 1 for a finite or infinite value
Sign(a) == IF a[1] > 0 THEN 1 ELSE IF a[1] < 0 THEN -1 ELSE 0

\* sums and products cancel common factors before they multiply
RAdd(a, b) ==
    IF IsNaN(a) \/ IsNaN(b) THEN NaN
    ELSE IF a = Unspecified \/ b = Unspecified THEN Unspecified
    ELSE IF IsInf(a) THEN (IF IsInf(b) /\ b # a THEN NaN ELSE a)
    ELSE IF IsInf(b) THEN b
    ELSE LET g == GCD(a[2], b[2])
         IN  Frac(a[1] * (b[2] \div g) + b[1] * (a[2] \div g), (a[2] \div g) * b[2])

RNeg(a) == IF a = Unspecified THEN a ELSE <<-a[1], a[2]>>

RSub(a, b) == RAdd(a, RNeg(b))

RMul(a, b) ==
    IF IsNaN(a) \/ IsNaN(b) THEN NaN
    ELSE IF a = Unspecified \/ b = Unspecified THEN Unspecified
    ELSE IF IsInf(a) \/ IsInf(b)
         THEN Frac(Sign(a) * Sign(b), 0)
    ELSE LET g1 == GCD(Abs(a[1]), b[2])
             g2 == GCD(Abs(b[1]), a[2])
         IN  Frac((a[1] \div g1) * (b[1] \div g2), (a[2] \div g2) * (b[2] \div g1))

\* f64::recip: 1/0 is +inf, 1/+-inf is 0
RInv(a) ==
    IF IsNaN(a) \/ a = Unspecified THEN a
    ELSE IF IsInf(a) THEN R(0)
    ELSE IF a[1] = 0 THEN PosInf
    ELSE Frac(a[2], a[1])

\* a / b: 0/0 and inf/inf are NaN, x/0 is +-inf, x/+-inf is 0
RDiv(a, b) == RMul(a, RInv(b))

\* a < b: false when an operand is NaN; infinities compare by value. No
\* program of the module compares an Unspecified value
RLt(a, b) ==
    /\ ~IsNaN(a) /\ ~IsNaN(b)
    /\ a # Unspecified /\ b # Unspecified
    /\ IF IsInf(a) \/ IsInf(b)
       THEN a # b /\ (a = NegInf \/ b = PosInf)
       ELSE LET g == GCD(a[2], b[2])
            IN  a[1] * (b[2] \div g) < b[1] * (a[2] \div g)

\* a <= b
RLe(a, b) ==
    /\ ~IsNaN(a) /\ ~IsNaN(b)
    /\ a # Unspecified /\ b # Unspecified
    /\ ~RLt(b, a)

RAbs(a) == IF a = Unspecified THEN a ELSE <<Abs(a[1]), a[2]>>

\* f64::max: the other operand when one is NaN
RMax(a, b) ==
    IF IsNaN(a) THEN b ELSE IF IsNaN(b) THEN a
    ELSE IF a = Unspecified \/ b = Unspecified THEN Unspecified
    ELSE IF RLt(a, b) THEN b ELSE a

\* f64::signum: 1.0 for positive numbers, +0.0 and +inf, -1.0 for negative
\* numbers and -inf, NaN for NaN
RSignum(a) ==
    IF IsNaN(a) \/ a = Unspecified THEN a
    ELSE IF a[1] < 0 THEN R(-1) ELSE R(1)

---------------------------------------------------------------------------
(* Option<T>: None is the empty sequence, Some(v) the sequence of v alone *)

None == <<>>

Some(v) == <<v>>

IsSome(o) == Len(o) = 1

unwrap_or(o, default) == IF IsSome(o) THEN o[1] ELSE default

---------------------------------------------------------------------------
(* Vectors and matrices (ndarray) *)

RECURSIVE SumTo(_, _)
\* f[1] + ... + f[m]
SumTo(f, m) == IF m = 0 THEN R(0) ELSE RAdd(SumTo(f, m - 1), f[m])

Dot(u, v) == SumTo([i \in 1..Len(u) |-> RMul(u[i], v[i])], Len(u))

VecAdd(u, v) == [i \in 1..Len(u) |-> RAdd(u[i], v[i])]

VecSub(u, v) == [i \in 1..Len(u) |-> RSub(u[i], v[i])]

VecScale(u, c) == [i \in 1..Len(u) |-> RMul(u[i], c)]

VecNeg(u) == [i \in 1..Len(u) |-> RNeg(u[i])]

Zeros(m) == [i \in 1..m |-> R(0)]

NaNVec(m) == [i \in 1..m |-> NaN]

VecFinite(u) == \A i \in 1..Len(u) : IsFinite(u[i])

NRows(A) == Len(A)

NCols(A) == IF Len(A) = 0 THEN 0 ELSE Len(A[1])

Col(A, j) == [i \in 1..Len(A) |-> A[i][j]]

Transpose(A) == [j \in 1..NCols(A) |-> Col(A, j)]

MatVec(A, v) == [i \in 1..Len(A) |-> Dot(A[i], v)]

MatMul(A, B) == [i \in 1..Len(A) |-> [j \in 1..NCols(B) |-> Dot(A[i], Col(B, j))]]

MatAdd(A, B) == [i \in 1..Len(A) |-> VecAdd(A[i], B[i])]

MatSub(A, B) == [i \in 1..Len(A) |-> VecSub(A[i], B[i])]

MatScale(A, c) == [i \in 1..Len(A) |-> VecScale(A[i], c)]

Eye(m) == [i \in 1..m |-> [j \in 1..m |-> IF i = j THEN R(1) ELSE R(0)]]

ZeroMat(r, c) == [i \in 1..r |-> Zeros(c)]

NaNMat(r, c) == [i \in 1..r |-> NaNVec(c)]

MatFinite(A) == \A i \in 1..Len(A) : VecFinite(A[i])

\* x.slice(s![..m, ..]).t().dot(...): the cross products of the first m rows
Gram(X, m, k) ==
    [a \in 1..k |-> [b \in 1..k |->
        SumTo([r \in 1..m |-> RMul(X[r][a], X[r][b])], m)]]

GramY(X, Y, m, k) ==
    [a \in 1..k |-> SumTo([r \in 1..m |-> RMul(X[r][a], Y[r])], m)]

---------------------------------------------------------------------------
(* The factorization backend (faer), by its contract in exact arithmetic *)

\* A without row i and column j
Minor(A, i, j) ==
    [a \in 1..(Len(A) - 1) |-> [b \in 1..(Len(A) - 1) |->
        A[IF a < i THEN a ELSE a + 1][IF b < j THEN b ELSE b + 1]]]

RECURSIVE Det(_)
\* the determinant, by expansion along the first row
Det(A) ==
    IF Len(A) = 0 THEN R(1)
    ELSE SumTo([j \in 1..Len(A) |->
                   RMul(RMul(IF j % 2 = 1 THEN R(1) ELSE R(-1), A[1][j]),
                        Det(Minor(A, 1, j)))], Len(A))

Singular(A) == ~MatFinite(A) \/ Det(A) = R(0)

UnspecifiedMat(r, c) == [i \in 1..r |-> [j \in 1..c |-> Unspecified]]

\* partial_piv_lu().inverse(): the inverse. Of a 1 x 1 matrix it is the
\* reciprocal; of a larger matrix that is singular in exact arithmetic, or
\* has a non-finite entry, it is whatever the rounded pivots give
LuInverse(A) ==
    IF Len(A) = 1 THEN <<<<RInv(A[1][1])>>>>
    ELSE IF Singular(A) THEN UnspecifiedMat(Len(A), Len(A))
    ELSE LET d == Det(A)
         IN  [i \in 1..Len(A) |-> [j \in 1..Len(A) |->
                 RDiv(RMul(IF (i + j) % 2 = 0 THEN R(1) ELSE R(-1),
                           Det(Minor(A, j, i))), d)]]

\* partial_piv_lu().solve(b)
LuSolve(A, b) ==
    IF Len(A) = 1 THEN <<RDiv(b[1], A[1][1])>> ELSE MatVec(LuInverse(A), b)

\* the symmetric matrix whose lower triangle is A's (Side::Lower)
SymLower(A) ==
    [i \in 1..Len(A) |-> [j \in 1..Len(A) |-> IF j <= i THEN A[i][j] ELSE A[j][i]]]

Leading(A, m) == [i \in 1..m |-> [j \in 1..m |-> A[i][j]]]

\* how the rounding errors of a pivot that is zero in exact arithmetic fall:
\* "up" leaves it positive, "down" leaves it zero or negative
Roundings == {"up", "down"}

RECURSIVE IsPow4(_)
IsPow4(n) == n = 1 \/ (n > 1 /\ n % 4 = 0 /\ IsPow4(n \div 4))

\* the square root of the positive rational p is a power of two: taking it
\* and dividing by it round nothing
ExactRoot(p) == IsPow4(p[1]) /\ IsPow4(p[2])

\* pivot m of the factorization in exact arithmetic
Pivot(S, m) == RDiv(Det(Leading(S, m)), Det(Leading(S, m - 1)))

\* the pivots of cholesky(Side::Lower): "positive" when all are positive in
\* exact arithmetic, "not positive" when the first that is not positive is
\* negative, or is zero and computed without rounding (it is the first
\* pivot, or its row is zero left of the diagonal, or the roots of the
\* pivots before it are exact), "rounding" when it is zero and computed with
\* rounding errors
CholeskyPivots(A) ==
    LET S   == SymLower(A)
        n   == Len(A)
        bad == {m \in 1..n : ~RLt(R(0), Det(Leading(S, m)))}
    IN  IF ~RLt(R(0), S[1][1]) THEN "not positive"
        ELSE IF ~MatFinite(S) THEN (IF n = 1 THEN "positive" ELSE "rounding")
        ELSE IF bad = {} THEN "positive"
        ELSE LET m == CHOOSE m \in bad : \A o \in bad : m <= o
             IN  IF RLt(Det(Leading(S, m)), R(0)) THEN "not positive"
                 ELSE IF \/ \A j \in 1..(m - 1) : S[m][j] = R(0)
                         \/ \A i \in 1..(m - 1) : ExactRoot(Pivot(S, i))
                      THEN "not positive"
                      ELSE "rounding"

\* cholesky(Side::Lower) is Ok when every computed pivot is positive
CholeskyOk(A, rounding) ==
    \/ CholeskyPivots(A) = "positive"
    \/ CholeskyPivots(A) = "rounding" /\ rounding = "up"

CholeskyInverse(A) == LuInverse(SymLower(A))

CholeskySolve(A, b) == LuSolve(SymLower(A), b)

---------------------------------------------------------------------------
(* Dense solver primitives: inv, solve_normal_equations *)

FallbackMsg == "Cholesky decomposition failed, falling back to LU decomposition"

\* a bug: after a successful Cholesky factorization LU runs as well and its
\* result is returned
inv_run_noReturn(array, use_cholesky, rounding) ==
    [out |-> LuInverse(array),
     ran |-> IF use_cholesky THEN <<"cholesky", "lu">> ELSE <<"lu">>,
     printed |-> IF use_cholesky /\ ~CholeskyOk(array, rounding)
                 THEN <<FallbackMsg>> ELSE <<>>]

\* inv with the factorizations it ran and the lines it printed
inv_run(array, use_cholesky, rounding) ==
    IF use_cholesky /\ CholeskyOk(array, rounding)
    THEN [out |-> CholeskyInverse(array), ran |-> <<"cholesky">>, printed |-> <<>>]
    ELSE [out |-> LuInverse(array),
          ran |-> IF use_cholesky THEN <<"cholesky", "lu">> ELSE <<"lu">>,
          printed |-> IF use_cholesky THEN <<FallbackMsg>> ELSE <<>>]

inv(array, use_cholesky, rounding) == inv_run(array, use_cholesky, rounding).out

solve_normal_equations_run(xtx, xty, use_cholesky, rounding) ==
    IF use_cholesky /\ CholeskyOk(xtx, rounding)
    THEN [out |-> CholeskySolve(xtx, xty), ran |-> <<"cholesky">>, printed |-> <<>>]
    ELSE [out |-> LuSolve(xtx, xty),
          ran |-> IF use_cholesky THEN <<"cholesky", "lu">> ELSE <<"lu">>,
          printed |-> IF use_cholesky THEN <<FallbackMsg>> ELSE <<>>]

solve_normal_equations(xtx, xty, use_cholesky, rounding) ==
    solve_normal_equations_run(xtx, xty, use_cholesky, rounding).out

---------------------------------------------------------------------------
(* Woodbury update *)

outer_product(u, v) == [i \in 1..Len(u) |-> [j \in 1..Len(v) |-> RMul(u[i], v[j])]]

\* assert!(s[0] == s[1]); the reciprocals of the diagonal, zeros elsewhere
inv_diag(c) ==
    IF NRows(c) # NCols(c) THEN "panic"
    ELSE [i \in 1..Len(c) |-> [j \in 1..Len(c) |->
             IF i = j THEN RInv(c[i][i]) ELSE R(0)]]

\* c_is_diag is an Option<bool>; LU is exact where no Cholesky is tried, so
\* inv(_, false) takes either rounding
woodbury_update(a_inv, u, c, v, c_is_diag) ==
    IF c_is_diag = Some(TRUE) /\ NRows(c) # NCols(c) THEN "panic"
    ELSE LET inv_c        == IF c_is_diag = Some(TRUE) THEN inv_diag(c)
                             ELSE inv(c, FALSE, "down")
             v_inv_a      == MatMul(v, a_inv)
             inv_a_u      == MatMul(a_inv, u)
             intermediate == inv(MatAdd(inv_c, MatMul(v, inv_a_u)), FALSE, "down")
         IN  MatSub(a_inv, MatMul(MatMul(inv_a_u, intermediate), v_inv_a))

\* c = None defaults to the identity of the update's rank
update_xtx_inv(xtx_inv, x_update, c) ==
    LET u       == Transpose(x_update)
        v       == Transpose(u)
        default == Eye(NCols(u))
    IN  woodbury_update(xtx_inv, u, unwrap_or(c, default), v, Some(TRUE))

\* a bug: the leaving row is added again instead of removed
DropAdd_addsBoth == <<<<R(1), R(0)>>, <<R(0), R(1)>>>>

\* array![[-1., 0.], [0., 1.]]
DropAdd == <<<<R(-1), R(0)>>, <<R(0), R(1)>>>>

---------------------------------------------------------------------------
(* State: one record per program; a program that is not running is Idle *)

VARIABLES
    rolling,  \* a call of solve_rolling_ols
    rls,      \* a call of solve_recursive_least_squares
    dense,    \* a call of inv or of solve_normal_equations
    direct,   \* the entry of solve_ols, solve_ridge or solve_elastic_net
    enet      \* a call of solve_elastic_net

vars == <<rolling, rls, dense, direct, enet>>

Idle == [pc |-> "idle"]

---------------------------------------------------------------------------
(* Bounds of the model *)

\* most rows of a design matrix
MaxN == 3

\* numbers of columns of a design matrix
Ks == {1, 2}

\* entries of a design matrix
XVals == {R(0), R(1)}

Matrices(n, k, S) == [1..n -> [1..k -> S]]

Vectors(n, S) == [1..n -> S]

\* targets: a constant and a ramp
Targets(n) == {[t \in 1..n |-> R(1)], [t \in 1..n |-> R(t)]}

Bools == {TRUE, FALSE}

OptionOf(S) == {None} \cup {Some(v) : v \in S}

---------------------------------------------------------------------------
(* solve_rolling_ols *)

\* use_woodbury defaults to k > WoodburyK
WoodburyK == 60

\* the line of println! at lines 502-506
WarnMsg ==
    "warning: min_periods should be greater or equal to the number of regressors in the model and less than or equal to the window size otherwise estimated parameters may be unstable!"

Min(a, b) == IF a < b THEN a ELSE b

Max(a, b) == IF a > b THEN a ELSE b

\* x.row(t), y[t] for a 0-based t
Row(x, t) == x[t + 1]

At(y, t) == y[t + 1]

\* coefficients.slice_mut(s![t, ..]).assign(row)
AssignRow(coefficients, t, row) == [coefficients EXCEPT ![t + 1] = row]

\* i.saturating_sub(window_size)
saturating_sub(i, w) == IF i >= w THEN i - w ELSE 0

\* window_size - 1 in usize (lines 537, 578) overflows
WindowOverflows(window_size) == window_size = 0

\* i > window_size - 1: the window is full, a row leaves it.  For
\* window_size = 0 and no overflow checks the right side wraps to usize::MAX,
\* which no i exceeds
WindowFull(i, window_size) ==
    IF WindowOverflows(window_size) THEN FALSE ELSE i > window_size - 1

\* the state at the call
RollingCall(y, x, window_size, min_periods, use_woodbury, alpha, overflow_checks) ==
    [pc |-> "call",
     overflow_checks |-> overflow_checks,  \* the build panics on usize overflow
     args |-> [y |-> y, x |-> x, window_size |-> window_size,
               min_periods |-> min_periods,
               use_woodbury |-> use_woodbury, alpha |-> alpha],
     n |-> Len(x), k |-> Len(x[1]),
     min_periods |-> 0, use_woodbury |-> FALSE, alpha |-> R(0),
     coefficients |-> <<>>, xtx |-> <<>>, xty |-> <<>>, xtx_inv |-> <<>>,
     i |-> 0,
     printed |-> <<>>,   \* lines printed so far
     assigned |-> <<>>,  \* rows of coefficients assigned, in order
     held |-> {},        \* rows whose contribution xtx (or xtx_inv) and xty hold
     ops |-> <<>>]       \* operations on the k x k matrix, in order

\* the calls, in a build with overflow checks (debug) or without (release)
RollingInit ==
    \E n \in 1..MaxN, k \in Ks :
    \E x \in Matrices(n, k, XVals), y \in Targets(n),
       window_size \in 0..MaxN,
       min_periods \in OptionOf(0..(MaxN + 1)),
       use_woodbury \in OptionOf(Bools),
       alpha \in OptionOf({R(1)}),
       overflow_checks \in Bools :
        /\ rolling = RollingCall(y, x, window_size, min_periods, use_woodbury, alpha,
                                 overflow_checks)
        /\ rls = Idle /\ dense = Idle /\ direct = Idle /\ enet = Idle

\* min_periods.unwrap_or(min(k, window_size))
DefaultMinPeriods(k, window_size) == Min(k, window_size)

\* !(min_periods >= k && min_periods <= window_size)
Unstable(min_periods, k, window_size) ==
    ~(min_periods >= k /\ min_periods <= window_size)

\* x_warmup.t().dot(&x_warmup), plus the ridge penalty when alpha > 0
WarmupXtX(x, min_periods, k, alpha) ==
    LET xtx == Gram(x, min_periods, k)
    IN  IF RLt(R(0), alpha) THEN MatAdd(xtx, MatScale(Eye(k), alpha)) ELSE xtx

WarmupXtY(x, y, min_periods, k) == GramY(x, y, min_periods, k)

\* min_periods - 1 in usize (lines 526, 564) as the row of s![_, ..]: for
\* min_periods = 0 and no overflow checks it wraps to usize::MAX, which the
\* slice reads as the index -1, the last row
WarmupRow(min_periods, n) == IF min_periods = 0 THEN n - 1 ELSE min_periods - 1

\* lines 491-527 (Woodbury) and 491-518, 558-565 (naive): the parameters, the
\* warning, the warm-up cross products and the first estimate.  The slice
\* ..min_periods panics when min_periods > n, before anything is computed.
\* min_periods - 1 overflows when min_periods = 0: a build with overflow
\* checks (debug) panics there, after inv or solve_normal_equations has run;
\* a build without them (release) assigns the estimate of zero rows to the
\* last row and runs the loop from row 0.
Warmup(s) ==
    LET a            == s.args
        n            == s.n
        k            == s.k
        min_periods  == unwrap_or(a.min_periods, DefaultMinPeriods(k, a.window_size))
        use_woodbury == unwrap_or(a.use_woodbury, k > WoodburyK)
        alpha        == unwrap_or(a.alpha, R(0))
        printed      == IF Unstable(min_periods, k, a.window_size)
                        THEN <<WarnMsg>> ELSE <<>>
        xty          == WarmupXtY(a.x, a.y, min_periods, k)
        xtx          == WarmupXtX(a.x, min_periods, k, alpha)
        xtx_inv      == inv(xtx, FALSE, "down")
        coef_warmup  == IF use_woodbury THEN MatVec(Transpose(xtx_inv), xty)
                        ELSE solve_normal_equations(xtx, xty, FALSE, "down")
        entered      == [s EXCEPT !.min_periods = min_periods,
                                  !.use_woodbury = use_woodbury,
                                  !.alpha = alpha,
                                  !.coefficients = NaNMat(n, k),
                                  !.printed = printed]
        row          == WarmupRow(min_periods, n)
        ops          == IF use_woodbury
                        THEN <<[op |-> "inv", t |-> row]>>
                        ELSE <<[op |-> "solve", t |-> row, use_cholesky |-> FALSE]>>
    IN  IF min_periods > n
        THEN [entered EXCEPT !.pc = "panicked"]
        ELSE IF min_periods = 0 /\ s.overflow_checks
        THEN [entered EXCEPT
                !.pc = "panicked",
                !.ops = IF use_woodbury THEN <<[op |-> "inv"]>>
                        ELSE <<[op |-> "solve", use_cholesky |-> FALSE]>>]
        ELSE [entered EXCEPT
                !.pc = "loop",
                !.xtx = xtx, !.xty = xty,
                !.xtx_inv = IF use_woodbury THEN xtx_inv ELSE <<>>,
                !.coefficients = AssignRow(NaNMat(n, k), row, coef_warmup),
                !.assigned = <<row>>,
                !.held = 0..(min_periods - 1),
                !.ops = ops,
                !.i = min_periods]

RollingWarmup ==
    /\ rolling.pc = "call"
    /\ rolling' = Warmup(rolling)
    /\ UNCHANGED <<rls, dense, direct, enet>>

\* lines 533-557: one iteration of the Woodbury loop; window_size - 1 at
\* line 537 panics for window_size = 0 under overflow checks
WoodburyStep(s) ==
    LET i        == s.i
        x        == s.args.x
        y        == s.args.y
        w        == s.args.window_size
        i_start  == saturating_sub(i, w)
        x_new    == Row(x, i)
        x_prev   == Row(x, i_start)
        full     == WindowFull(i, w)
        x_update == IF full THEN <<VecNeg(x_prev), x_new>> ELSE <<x_new>>
        c        == IF full THEN Some(DropAdd) ELSE None
        xtx_inv  == update_xtx_inv(s.xtx_inv, x_update, c)
        xty      == IF full
                    THEN VecSub(VecAdd(s.xty, VecScale(x_new, At(y, i))),
                                VecScale(x_prev, At(y, i_start)))
                    ELSE VecAdd(s.xty, VecScale(x_new, At(y, i)))
    IN  IF WindowOverflows(w) /\ s.overflow_checks
        THEN [s EXCEPT !.pc = "panicked"]
        ELSE [s EXCEPT
                !.xtx_inv = xtx_inv, !.xty = xty,
                !.coefficients = AssignRow(s.coefficients, i, MatVec(xtx_inv, xty)),
                !.assigned = Append(s.assigned, i),
                !.held = IF full THEN (s.held \cup {i}) \ {i_start} ELSE s.held \cup {i},
                !.ops = Append(s.ops, [op |-> "woodbury", t |-> i,
                                       rank |-> Len(x_update),
                                       u |-> x_update,
                                       c |-> unwrap_or(c, Eye(Len(x_update)))]),
                !.i = i + 1]

\* lines 568-587: one iteration of the naive loop, under one rounding of
\* the Cholesky pivots; window_size - 1 at line 578 panics for
\* window_size = 0 under overflow checks, after the new row has been added
NaiveStep(s, rounding) ==
    LET i        == s.i
        x        == s.args.x
        y        == s.args.y
        w        == s.args.window_size
        i_start  == saturating_sub(i, w)
        x_new    == Row(x, i)
        x_prev   == Row(x, i_start)
        full     == WindowFull(i, w)
        xtx_add  == MatAdd(s.xtx, outer_product(x_new, x_new))
        xty_add  == VecAdd(s.xty, VecScale(x_new, At(y, i)))
        xtx      == IF full THEN MatSub(xtx_add, outer_product(x_prev, x_prev)) ELSE xtx_add
        xty      == IF full THEN VecSub(xty_add, VecScale(x_prev, At(y, i_start))) ELSE xty_add
        solved   == solve_normal_equations_run(xtx, xty, TRUE, rounding)
    IN  IF WindowOverflows(w) /\ s.overflow_checks
        THEN [s EXCEPT !.pc = "panicked", !.xtx = xtx_add, !.xty = xty_add,
                       !.held = s.held \cup {i}]
        ELSE [s EXCEPT
                !.xtx = xtx, !.xty = xty,
                !.coefficients = AssignRow(s.coefficients, i, solved.out),
                !.printed = s.printed \o solved.printed,
                !.assigned = Append(s.assigned, i),
                !.held = IF full THEN (s.held \cup {i}) \ {i_start} ELSE s.held \cup {i},
                !.ops = Append(s.ops, [op |-> "solve", t |-> i, use_cholesky |-> TRUE]),
                !.i = i + 1]

RollingStepWoodbury ==
    /\ rolling.pc = "loop"
    /\ rolling.use_woodbury
    /\ rolling.i < rolling.n
    /\ rolling' = WoodburyStep(rolling)
    /\ UNCHANGED <<rls, dense, direct, enet>>

RollingStepNaive ==
    /\ rolling.pc = "loop"
    /\ ~rolling.use_woodbury
    /\ rolling.i < rolling.n
    /\ \E rounding \in Roundings : rolling' = NaiveStep(rolling, rounding)
    /\ UNCHANGED <<rls, dense, direct, enet>>

\* line 589
RollingReturn ==
    /\ rolling.pc = "loop"
    /\ rolling.i >= rolling.n
    /\ rolling' = [rolling EXCEPT !.pc = "returned"]
    /\ UNCHANGED <<rls, dense, direct, enet>>

RollingNext ==
    \/ RollingWarmup
    \/ RollingStepWoodbury
    \/ RollingStepNaive
    \/ RollingReturn

SpecRolling == RollingInit /\ [][RollingNext]_vars

---------------------------------------------------------------------------
(* RecursiveLeastSquares and solve_recursive_least_squares *)

RECURSIVE Pow2(_)
Pow2(e) == IF e = 0 THEN 1 ELSE 2 * Pow2(e - 1)

\* (0.5f64.ln() / half_life).exp() = 0.5^(1 / half_life), for the half lives
\* 1/m of the model; 1.0 without a half life
ForgettingFactor(half_life) ==
    IF IsSome(half_life) THEN Frac(1, Pow2(RDiv(R(1), half_life[1])[1])) ELSE R(1)

\* initial_state_covariance.unwrap_or(DefaultLam)
DefaultLam == 10

\* RecursiveLeastSquares::new
rls_new(num_features, lam, half_life, initial_state_mean) ==
    [forgetting_factor |-> ForgettingFactor(half_life),
     coef |-> unwrap_or(initial_state_mean, Zeros(num_features)),
     p |-> MatScale(Eye(num_features), lam),
     k |-> Zeros(num_features)]

\* a bug: P is updated with the gain of the update before
rls_update_staleGain(self, x, y) ==
    LET r         == RAdd(R(1), RDiv(Dot(MatVec(Transpose(self.p), x), x),
                                     self.forgetting_factor))
        k         == VecScale(MatVec(self.p, x),
                              RDiv(R(1), RMul(r, self.forgetting_factor)))
        residuals == RSub(y, Dot(x, self.coef))
        coef      == VecAdd(self.coef, VecScale(k, residuals))
        p         == MatSub(MatScale(self.p, RDiv(R(1), self.forgetting_factor)),
                            MatScale(outer_product(self.k, self.k), r))
    IN  [self EXCEPT !.k = k, !.coef = coef, !.p = p]

\* RecursiveLeastSquares::update
rls_update(self, x, y) ==
    LET r         == RAdd(R(1), RDiv(Dot(MatVec(Transpose(self.p), x), x),
                                     self.forgetting_factor))
        k         == VecScale(MatVec(self.p, x),
                              RDiv(R(1), RMul(r, self.forgetting_factor)))
        residuals == RSub(y, Dot(x, self.coef))
        coef      == VecAdd(self.coef, VecScale(k, residuals))
        p         == MatSub(MatScale(self.p, RDiv(R(1), self.forgetting_factor)),
                            MatScale(outer_product(k, k), r))
    IN  [self EXCEPT !.k = k, !.coef = coef, !.p = p]

\* a bug: every sample updates the estimator
ShouldUpdate_always(is_valid, t) == TRUE

\* if is_valid[t]
ShouldUpdate(is_valid, t) == At(is_valid, t)

RlsInit ==
    \E n \in 1..MaxN, k \in Ks :
    \E x \in Matrices(n, k, XVals), y \in Targets(n),
       is_valid \in Vectors(n, Bools),
       half_life \in OptionOf({R(1)}),
       initial_state_covariance \in OptionOf({R(1)}),
       initial_state_mean \in OptionOf({[j \in 1..k |-> R(1)]}) :
        /\ rls = [pc |-> "call",
                  args |-> [y |-> y, x |-> x, half_life |-> half_life,
                            initial_state_covariance |-> initial_state_covariance,
                            initial_state_mean |-> initial_state_mean,
                            is_valid |-> is_valid],
                  n_samples |-> n, n_features |-> k,
                  recursive_least_squares |-> <<>>,
                  coefficients |-> <<>>,
                  t |-> 0,
                  updates |-> <<>>]   \* the samples update was called with, in order
        /\ rolling = Idle /\ dense = Idle /\ direct = Idle /\ enet = Idle

\* lines 373-381: the estimator and the zero-filled trajectory
RlsConstruct ==
    /\ rls.pc = "call"
    /\ rls' = [rls EXCEPT
                 !.pc = "loop",
                 !.recursive_least_squares =
                     rls_new(rls.n_features,
                             unwrap_or(rls.args.initial_state_covariance, R(DefaultLam)),
                             rls.args.half_life, rls.args.initial_state_mean),
                 !.coefficients = ZeroMat(rls.n_samples, rls.n_features)]
    /\ UNCHANGED <<rolling, dense, direct, enet>>

\* lines 383-393, is_valid[t]: update, then record the coefficients
RlsStepValid ==
    /\ rls.pc = "loop"
    /\ rls.t < rls.n_samples
    /\ ShouldUpdate(rls.args.is_valid, rls.t)
    /\ LET est == rls_update(rls.recursive_least_squares,
                             Row(rls.args.x, rls.t), At(rls.args.y, rls.t))
       IN  rls' = [rls EXCEPT
                     !.recursive_least_squares = est,
                     !.coefficients = AssignRow(rls.coefficients, rls.t, est.coef),
                     !.updates = Append(rls.updates, rls.t),
                     !.t = rls.t + 1]
    /\ UNCHANGED <<rolling, dense, direct, enet>>

\* lines 383-393, !is_valid[t]: record the coefficients
RlsStepInvalid ==
    /\ rls.pc = "loop"
    /\ rls.t < rls.n_samples
    /\ ~ShouldUpdate(rls.args.is_valid, rls.t)
    /\ rls' = [rls EXCEPT
                 !.coefficients = AssignRow(rls.coefficients, rls.t,
                                            rls.recursive_least_squares.coef),
                 !.t = rls.t + 1]
    /\ UNCHANGED <<rolling, dense, direct, enet>>

\* line 394
RlsReturn ==
    /\ rls.pc = "loop"
    /\ rls.t >= rls.n_samples
    /\ rls' = [rls EXCEPT !.pc = "returned"]
    /\ UNCHANGED <<rolling, dense, direct, enet>>

RlsNext ==
    \/ RlsConstruct
    \/ RlsStepValid
    \/ RlsStepInvalid
    \/ RlsReturn

SpecRls == RlsInit /\ [][RlsNext]_vars

---------------------------------------------------------------------------
(* Calls of inv and of solve_normal_equations *)

\* entries of the matrices handed to inv and solve_normal_equations
DenseVals == {R(-1), R(0), R(1), R(2), PosInf}

DenseInit ==
    \E k \in Ks :
    \E array \in Matrices(k, k, DenseVals), xty \in Vectors(k, XVals),
       use_cholesky \in Bools, fn \in {"inv", "solve_normal_equations"} :
        /\ dense = [pc |-> "call", fn |-> fn,
                    array |-> array, xty |-> xty, use_cholesky |-> use_cholesky,
                    out |-> <<>>, ran |-> <<>>, printed |-> <<>>]
        /\ rolling = Idle /\ rls = Idle /\ direct = Idle /\ enet = Idle

\* lines 13-31
DenseInv ==
    /\ dense.pc = "call" /\ dense.fn = "inv"
    /\ \E rounding \in Roundings :
       LET r == inv_run(dense.array, dense.use_cholesky, rounding)
       IN  dense' = [dense EXCEPT !.pc = "returned", !.out = r.out,
                                  !.ran = r.ran, !.printed = r.printed]
    /\ UNCHANGED <<rolling, rls, direct, enet>>

\* lines 162-190
DenseSolve ==
    /\ dense.pc = "call" /\ dense.fn = "solve_normal_equations"
    /\ \E rounding \in Roundings :
       LET r == solve_normal_equations_run(dense.array, dense.xty, dense.use_cholesky,
                                           rounding)
       IN  dense' = [dense EXCEPT !.pc = "returned", !.out = r.out,
                                  !.ran = r.ran, !.printed = r.printed]
    /\ UNCHANGED <<rolling, rls, direct, enet>>

DenseNext ==
    \/ DenseInv
    \/ DenseSolve

SpecDense == DenseInit /\ [][DenseNext]_vars

---------------------------------------------------------------------------
(* The entry of the direct solvers: solve_ols, solve_ridge, solve_elastic_net *)

Methods == {"QR", "SVD", "Cholesky", "LU", "CD"}

\* lines 131-143: the method solve_ols uses, or a panic
ols_method(solve_method, n_samples, n_features) ==
    IF solve_method = Some("QR") THEN "QR"
    ELSE IF solve_method = Some("SVD") THEN "SVD"
    ELSE IF solve_method = None
         THEN (IF n_samples > n_features THEN "QR" ELSE "SVD")
    ELSE "panic"

\* a bug: alpha = 0 is rejected
ridge_method_strict(alpha, solve_method) ==
    IF ~RLt(R(0), alpha) THEN "panic"
    ELSE IF solve_method \in {Some("Cholesky"), Some("LU"), None}
         THEN (IF solve_method = Some("Cholesky") THEN "Cholesky" ELSE "LU")
    ELSE IF solve_method = Some("SVD") THEN "SVD"
    ELSE "panic"

\* lines 201-221: the method solve_ridge uses, or a panic
ridge_method(alpha, solve_method) ==
    IF ~RLe(R(0), alpha) THEN "panic"
    ELSE IF solve_method \in {Some("Cholesky"), Some("LU"), None}
         THEN (IF solve_method = Some("Cholesky") THEN "Cholesky" ELSE "LU")
    ELSE IF solve_method = Some("SVD") THEN "SVD"
    ELSE "panic"

\* l1_ratio.unwrap_or(0.5)
DefaultL1Ratio == Frac(1, 2)

\* lines 247-264: the method solve_elastic_net uses, or a panic
elastic_net_method(alpha, l1_ratio, solve_method) ==
    LET l1 == unwrap_or(l1_ratio, DefaultL1Ratio)
    IN  IF solve_method \notin {Some("CD"), None} THEN "panic"
        ELSE IF ~RLt(R(0), alpha) THEN "panic"
        ELSE IF ~(RLe(R(0), l1) /\ RLe(l1, R(1))) THEN "panic"
        ELSE "CD"

\* the alpha and l1_ratio arguments of the model
AlphaVals == {NaN, NegInf, R(-1), Frac(-1, 2), R(0), Frac(1, 2), R(1), PosInf}

L1Vals == {NaN, NegInf, R(-1), Frac(-1, 2), R(0), Frac(1, 2), R(1), Frac(3, 2), PosInf}

DirectInit ==
    \E fn \in {"solve_ols", "solve_ridge", "solve_elastic_net"},
       n \in 1..MaxN, k \in Ks,
       alpha \in AlphaVals, l1_ratio \in OptionOf(L1Vals),
       solve_method \in OptionOf(Methods) :
        /\ fn = "solve_ols" => alpha = R(0)
        /\ fn # "solve_elastic_net" => l1_ratio = None
        /\ direct = [pc |-> "call", fn |-> fn,
                     n_samples |-> n, n_features |-> k,
                     alpha |-> alpha, l1_ratio |-> l1_ratio,
                     solve_method |-> solve_method,
                     method |-> "none",
                     computed |-> FALSE]  \* whether any coefficient was computed
        /\ rolling = Idle /\ rls = Idle /\ dense = Idle /\ enet = Idle

\* the call passes its parameter checks and goes on to compute, or panics
Enter(method) ==
    direct' = [direct EXCEPT !.pc = IF method = "panic" THEN "panicked" ELSE "solving",
                             !.method = method]

DirectOls ==
    /\ direct.pc = "call" /\ direct.fn = "solve_ols"
    /\ Enter(ols_method(direct.solve_method, direct.n_samples, direct.n_features))
    /\ UNCHANGED <<rolling, rls, dense, enet>>

DirectRidge ==
    /\ direct.pc = "call" /\ direct.fn = "solve_ridge"
    /\ Enter(ridge_method(direct.alpha, direct.solve_method))
    /\ UNCHANGED <<rolling, rls, dense, enet>>

DirectElasticNet ==
    /\ direct.pc = "call" /\ direct.fn = "solve_elastic_net"
    /\ Enter(elastic_net_method(direct.alpha, direct.l1_ratio, direct.solve_method))
    /\ UNCHANGED <<rolling, rls, dense, enet>>

\* the backend call of the solver can end in a panic: solve_ols on the SVD
\* path unwraps the Result of LAPACK's least_squares with .expect (lines
\* 114-116), and on the QR path hands faer's solve_lstsq a matrix that may
\* have fewer rows than columns (lines 149-151), which faer may refuse
BackendMayPanic(fn, method, n_samples, n_features) ==
    /\ fn = "solve_ols"
    /\ method = "SVD" \/ (method = "QR" /\ n_samples < n_features)

\* the solver computes and returns its coefficients, or its backend panics
DirectSolve ==
    /\ direct.pc = "solving"
    /\ \E ok \in Bools :
          /\ ~ok => BackendMayPanic(direct.fn, direct.method,
                                    direct.n_samples, direct.n_features)
          /\ direct' = IF ok
                       THEN [direct EXCEPT !.pc = "returned", !.computed = TRUE]
                       ELSE [direct EXCEPT !.pc = "panicked"]
    /\ UNCHANGED <<rolling, rls, dense, enet>>

DirectNext ==
    \/ DirectOls
    \/ DirectRidge
    \/ DirectElasticNet
    \/ DirectSolve

SpecDirect == DirectInit /\ [][DirectNext]_vars

---------------------------------------------------------------------------
(* solve_elastic_net *)

\* most passes a call of the model allows (max_iter)
MaxIter == 2

\* max_iter.unwrap_or(DefaultMaxIter)
DefaultMaxIter == 1000

\* tol.unwrap_or(0.00001)
DefaultTol == Frac(1, 100000)

soft_threshold(x, alpha, positive) ==
    LET result == RMul(RSignum(x), RMax(RSub(RAbs(x), alpha), R(0)))
    IN  IF positive THEN RMax(result, R(0)) ELSE result

SumSq(d) == Dot(d, d)

\* (&w - &w_old).norm_l2() < tol, without the square root
converged(w, w_old, tol) ==
    /\ RLt(R(0), tol)
    /\ RLt(SumSq(VecSub(w, w_old)), RMul(tol, tol))

\* a bug: one pass more than max_iter
in_range_inclusive(it, max_iter) == it <= max_iter

\* for _ in 0..max_iter
in_range(it, max_iter) == it < max_iter

\* numbers of samples of the calls of the model
EnetNs == {2, 3}

EnetTargets(n) == {[t \in 1..n |-> R(t)], [t \in 1..n |-> R(-1)]}

\* the calls; max_iter and tol are given (their defaults need 1000 passes)
EnetInit ==
    \E n \in EnetNs, k \in Ks :
    \E x \in Matrices(n, k, XVals), y \in EnetTargets(n),
       alpha \in {R(0), R(1), PosInf},
       l1_ratio \in OptionOf({R(0), R(1)}),
       max_iter \in {Some(m) : m \in 0..MaxIter},
       tol \in {Some(R(0)), Some(Frac(1, 2))},
       positive \in OptionOf({TRUE}),
       solve_method \in OptionOf({"CD"}) :
        /\ enet = [pc |-> "call",
                   args |-> [y |-> y, x |-> x, alpha |-> alpha, l1_ratio |-> l1_ratio,
                             max_iter |-> max_iter, tol |-> tol, positive |-> positive,
                             solve_method |-> solve_method],
                   n_samples |-> n, n_features |-> k,
                   l1_ratio |-> R(0), max_iter |-> 0, tol |-> R(0), positive |-> FALSE,
                   alpha |-> R(0),
                   w |-> <<>>, w_old |-> <<>>, xtx |-> <<>>, residuals |-> <<>>,
                   it |-> 0,         \* the passes the for loop has completed
                   j |-> 0,
                   checks |-> <<>>]  \* the outcomes of the convergence checks, in order
        /\ rolling = Idle /\ rls = Idle /\ dense = Idle /\ direct = Idle

\* lines 247-270: the defaults, the parameter checks, the initial state
EnetEnter ==
    /\ enet.pc = "call"
    /\ LET a == enet.args
           k == enet.n_features
       IN  IF elastic_net_method(a.alpha, a.l1_ratio, a.solve_method) = "panic"
           THEN enet' = [enet EXCEPT !.pc = "panicked"]
           ELSE enet' = [enet EXCEPT
                           !.pc = "for",
                           !.l1_ratio = unwrap_or(a.l1_ratio, DefaultL1Ratio),
                           !.max_iter = unwrap_or(a.max_iter, DefaultMaxIter),
                           !.tol = unwrap_or(a.tol, DefaultTol),
                           !.positive = unwrap_or(a.positive, FALSE),
                           !.w = Zeros(k),
                           !.xtx = MatMul(Transpose(a.x), a.x),
                           !.residuals = a.y,
                           !.alpha = RMul(a.alpha, R(enet.n_samples))]
    /\ UNCHANGED <<rolling, rls, dense, direct>>

\* lines 272-274: a pass begins
EnetPass ==
    /\ enet.pc = "for"
    /\ in_range(enet.it, enet.max_iter)
    /\ enet' = [enet EXCEPT !.pc = "addback", !.w_old = enet.w, !.j = 0]
    /\ UNCHANGED <<rolling, rls, dense, direct>>

\* line 277: the contribution of feature j is added back to the residuals
EnetAddBack ==
    /\ enet.pc = "addback"
    /\ LET xj == Col(enet.args.x, enet.j + 1)
       IN  enet' = [enet EXCEPT
                      !.pc = "threshold",
                      !.residuals = VecAdd(enet.residuals, VecScale(xj, At(enet.w, enet.j)))]
    /\ UNCHANGED <<rolling, rls, dense, direct>>

\* lines 278-279: coefficient j
EnetThreshold ==
    /\ enet.pc = "threshold"
    /\ LET xj == Col(enet.args.x, enet.j + 1)
           wj == RDiv(soft_threshold(Dot(xj, enet.residuals),
                                     RMul(enet.alpha, enet.l1_ratio), enet.positive),
                      RAdd(enet.xtx[enet.j + 1][enet.j + 1],
                           RMul(enet.alpha, RSub(R(1), enet.l1_ratio))))
       IN  enet' = [enet EXCEPT !.pc = "subtract", !.w = AssignRow(enet.w, enet.j, wj)]
    /\ UNCHANGED <<rolling, rls, dense, direct>>

\* line 281: the contribution of feature j is subtracted again; next feature
EnetSubtract ==
    /\ enet.pc = "subtract"
    /\ LET xj == Col(enet.args.x, enet.j + 1)
       IN  enet' = [enet EXCEPT
                      !.pc = IF enet.j + 1 < enet.n_features THEN "addback" ELSE "check",
                      !.residuals = VecSub(enet.residuals, VecScale(xj, At(enet.w, enet.j))),
                      !.j = enet.j + 1]
    /\ UNCHANGED <<rolling, rls, dense, direct>>

\* lines 283-291: the convergence check ends the pass; break returns w
EnetCheck ==
    /\ enet.pc = "check"
    /\ LET stop == converged(enet.w, enet.w_old, enet.tol)
       IN  enet' = [enet EXCEPT
                      !.pc = IF stop THEN "returned" ELSE "for",
                      !.it = enet.it + 1,
                      !.checks = Append(enet.checks, stop)]
    /\ UNCHANGED <<rolling, rls, dense, direct>>

\* lines 272, 293: the loop has run max_iter passes
EnetReturn ==
    /\ enet.pc = "for"
    /\ ~in_range(enet.it, enet.max_iter)
    /\ enet' = [enet EXCEPT !.pc = "returned"]
    /\ UNCHANGED <<rolling, rls, dense, direct>>

EnetNext ==
    \/ EnetEnter
    \/ EnetPass
    \/ EnetAddBack
    \/ EnetThreshold
    \/ EnetSubtract
    \/ EnetCheck
    \/ EnetReturn

SpecEnet == EnetInit /\ [][EnetNext]_vars

\* the call runs on: nothing suspends it
SpecEnetFair == SpecEnet /\ WF_vars(EnetNext)

---------------------------------------------------------------------------
(* Claims about solve_rolling_ols *)

\* the step whose output row was produced last
LastT == rolling.i - 1

RollingRan == rolling.pc \in {"loop", "returned"}

\* rows max(0, t - window_size + 1) .. t
Window(t, window_size) == Max(0, t - window_size + 1)..t

\* the sum of f over the finite set S of integers
RECURSIVE SumOver(_, _)
SumOver(S, f) ==
    IF S = {} THEN R(0)
    ELSE LET r == CHOOSE r \in S : TRUE IN RAdd(f[r], SumOver(S \ {r}, f))

\* the cross products of the rows in S
XtXOf(S, x, k, alpha) ==
    LET xtx == [a \in 1..k |-> [b \in 1..k |->
                   SumOver(S, [r \in S |-> RMul(Row(x, r)[a], Row(x, r)[b])])]]
    IN  IF RLt(R(0), alpha) THEN MatAdd(xtx, MatScale(Eye(k), alpha)) ELSE xtx

XtYOf(S, x, y, k) ==
    [a \in 1..k |-> SumOver(S, [r \in S |-> RMul(Row(x, r)[a], At(y, r))])]

\* The rows recorded as held are the rows the cross products are made of:
\* xty, and xtx under the naive policy, are the sums over the held rows.
HeldIsWhatTheStateHolds ==
    RollingRan =>
        /\ rolling.xty = XtYOf(rolling.held, rolling.args.x, rolling.args.y, rolling.k)
        /\ ~rolling.use_woodbury =>
               rolling.xtx = XtXOf(rolling.held, rolling.args.x, rolling.k, rolling.alpha)

\* C1: under both policies, for every window_size >= 1 and every accepted
\* min_periods >= 1, the rows whose contributions the cross-product state
\* holds when output row t is produced are exactly rows
\* max(0, t - window_size + 1) .. t, also when min_periods > window_size.
C1_HeldIsWindow ==
    (RollingRan /\ rolling.args.window_size >= 1 /\ rolling.min_periods >= 1)
    => rolling.held = Window(LastT, rolling.args.window_size)

\* C2: a min_periods outside [k, window_size] never fails: the warning is
\* printed, the computation proceeds and an n x k matrix is returned.
C2_UnstableNeverFails ==
    (rolling.pc # "call"
       /\ Unstable(rolling.min_periods, rolling.k, rolling.args.window_size))
    => /\ rolling.pc # "panicked"
       /\ rolling.printed # <<>> /\ rolling.printed[1] = WarnMsg
       /\ rolling.pc = "returned" =>
              /\ Len(rolling.coefficients) = rolling.n
              /\ \A t \in 1..rolling.n : Len(rolling.coefficients[t]) = rolling.k

\* C9: without a min_periods argument min_periods is 1, and the first row
\* assigned is row 0.
C9_DefaultMinPeriodsIsOne ==
    (rolling.pc # "call" /\ rolling.args.min_periods = None)
    => /\ rolling.min_periods = 1
       /\ rolling.pc # "panicked"
       /\ rolling.assigned[1] = 0

\* the estimate the policy reads off its state
EstimateOf(s, rounding) ==
    IF s.use_woodbury THEN MatVec(s.xtx_inv, s.xty)
    ELSE solve_normal_equations(s.xtx, s.xty, TRUE, rounding)

\* what C4 says of a run that is in its loop or has returned
RowsAssignedOnceInOrder ==
    LET m == rolling.min_periods
        x == rolling.args.x
        y == rolling.args.y
        k == rolling.k
    IN  /\ Len(rolling.coefficients) = rolling.n
        /\ \A t \in 1..rolling.n : Len(rolling.coefficients[t]) = k
        /\ rolling.assigned = [j \in 1..(rolling.i - m + 1) |-> m - 2 + j]
        /\ \A t \in 0..(rolling.n - 1) :
               (t < m - 1 \/ t > LastT) => Row(rolling.coefficients, t) = NaNVec(k)
        /\ Row(rolling.coefficients, m - 1)
             = LuSolve(WarmupXtX(x, m, k, rolling.alpha), WarmupXtY(x, y, m, k))
        /\ LastT >= m =>
               /\ LastT \in rolling.held
               /\ \E rounding \in Roundings :
                      Row(rolling.coefficients, LastT) = EstimateOf(rolling, rounding)
        /\ rolling.pc = "returned" => LastT = rolling.n - 1

\* C4: with 1 <= min_periods <= n the call does not fail and its output has
\* n rows of k columns; rows before min_periods - 1 are never assigned and
\* stay NaN; row min_periods - 1 is the estimate from the first min_periods
\* rows; rows min_periods .. n-1 are assigned once each, in increasing
\* order, each from the state that already holds its row.
C4_RowsAssignedOnceInOrder ==
    (rolling.pc # "call" /\ 1 <= rolling.min_periods /\ rolling.min_periods <= rolling.n)
    => /\ rolling.pc # "panicked"
       /\ RowsAssignedOnceInOrder

\* the same holds of every call whose window_size - 1 does not panic: a
\* window_size of at least 1, or a build without overflow checks
RowsAssignedUnlessWindowOverflows ==
    (WindowOverflows(rolling.args.window_size) /\ rolling.overflow_checks)
    \/ C4_RowsAssignedOnceInOrder

\* a returned run with a NaN warm-up row, a first estimate and a sliding row
RowsAssignedReached ==
    /\ rolling.pc = "returned"
    /\ rolling.n = 3 /\ rolling.k = 2 /\ rolling.min_periods = 2
    /\ rolling.assigned = <<1, 2>>
    /\ Row(rolling.coefficients, 0) = NaNVec(2)
    /\ VecFinite(Row(rolling.coefficients, 1))
    /\ VecFinite(Row(rolling.coefficients, 2))
    /\ Row(rolling.coefficients, 1) # Row(rolling.coefficients, 2)

\* the call of the same arguments under the naive policy
NaiveCall(s) ==
    RollingCall(s.args.y, s.args.x, s.args.window_size, s.args.min_periods,
                Some(FALSE), s.args.alpha, s.overflow_checks)

RECURSIVE NaiveAt(_, _)
\* the naive policy's state after it has produced row t, on the arguments of s
NaiveAt(s, t) ==
    LET w == Warmup(NaiveCall(s))
    IN  IF t <= w.min_periods - 1 THEN w ELSE NaiveStep(NaiveAt(s, t - 1), "down")

\* the naive policy's XtX is invertible at warm-up and at every step up to t
InvertibleUpTo(s, t) ==
    \A u \in (s.min_periods - 1)..t : ~Singular(NaiveAt(s, u).xtx)

\* after row LastT the Woodbury state agrees with the naive state: same XtY,
\* same coefficient rows (the rows not yet assigned are NaN in both), and the
\* cached inverse is the inverse of the naive XtX wherever that XtX has one
AgreesWithNaive ==
    LET nv == NaiveAt(rolling, LastT)
    IN  /\ rolling.xty = nv.xty
        /\ rolling.coefficients = nv.coefficients
        /\ ~Singular(nv.xtx) => MatMul(rolling.xtx_inv, nv.xtx) = Eye(rolling.k)

\* two values that are not known to differ: equal, or one of them depends on
\* rounding
MayEqual(a, b) == a = b \/ a = Unspecified \/ b = Unspecified

\* the same, read as generously as the model allows: an Unspecified value
\* agrees with every value and NaN agrees with NaN
MayAgreeWithNaive ==
    LET nv == NaiveAt(rolling, LastT)
        k  == rolling.k
        pr == MatMul(rolling.xtx_inv, nv.xtx)
    IN  /\ rolling.xty = nv.xty
        /\ \A t \in 1..rolling.n : \A a \in 1..k :
               MayEqual(rolling.coefficients[t][a], nv.coefficients[t][a])
        /\ ~Singular(nv.xtx) =>
               \A a, b \in 1..k : MayEqual(pr[a][b], Eye(k)[a][b])

\* C3 as stated: for the same arguments the two policies agree at every
\* step t >= min_periods - 1.
C3_PoliciesAgree ==
    (RollingRan /\ rolling.use_woodbury) => MayAgreeWithNaive

\* C3 amended: they agree at every step up to which the (ridge-penalised)
\* XtX of the rows held has been invertible since warm-up.
C3_PoliciesAgreeWhileInvertible ==
    (RollingRan /\ rolling.use_woodbury /\ InvertibleUpTo(rolling, LastT))
    => AgreesWithNaive

\* a returned Woodbury run of two regressors whose last step was a rank-2
\* update, invertible throughout
C3_Witness ==
    /\ rolling.pc = "returned" /\ rolling.use_woodbury
    /\ rolling.k = 2 /\ rolling.n = 3 /\ rolling.args.window_size = 2
    /\ rolling.min_periods = 2
    /\ InvertibleUpTo(rolling, LastT)
    /\ rolling.ops[Len(rolling.ops)].rank = 2
    /\ VecFinite(Row(rolling.coefficients, 2))
    /\ Row(rolling.coefficients, 2) # Row(rolling.coefficients, 1)

\* the operations of a Woodbury run that has produced rows up to last: one
\* direct inversion at warm-up, then one update per step t, of rank 1 with
\* C = I and the row x_t before the window is full, and of rank 2 with
\* C = diag(-1, 1) and the rows -x_(t - window_size), x_t after
WoodburyOps(m, last, window_size, x) ==
    [j \in 1..(last - m + 2) |->
        IF j = 1 THEN [op |-> "inv", t |-> WarmupRow(m, Len(x))]
        ELSE LET t == m - 2 + j
             IN  IF t >= window_size
                 THEN [op |-> "woodbury", t |-> t, rank |-> 2,
                       u |-> <<VecNeg(Row(x, t - window_size)), Row(x, t)>>,
                       c |-> <<<<R(-1), R(0)>>, <<R(0), R(1)>>>>]
                 ELSE [op |-> "woodbury", t |-> t, rank |-> 1,
                       u |-> <<Row(x, t)>>, c |-> <<<<R(1)>>>>]]

RECURSIVE WoodburyXtY(_, _, _, _, _, _)
\* XtY after step last: the warm-up XtY, plus x_t * y_t for every step t
\* and, when t >= window_size, minus x_(t - window_size) * y_(t - window_size)
WoodburyXtY(m, last, window_size, x, y, k) ==
    IF last < m THEN WarmupXtY(x, y, m, k)
    ELSE LET add == VecAdd(WoodburyXtY(m, last - 1, window_size, x, y, k),
                           VecScale(Row(x, last), At(y, last)))
         IN  IF last >= window_size
             THEN VecSub(add, VecScale(Row(x, last - window_size),
                                       At(y, last - window_size)))
             ELSE add

\* C10: in Woodbury mode the k x k matrix is inverted directly once, at
\* warm-up; every later step t applies one Woodbury update, of rank 1 with
\* C = I adding row t while t < window_size and of rank 2 with
\* C = diag(-1, +1) removing row t - window_size and adding row t once
\* t >= window_size, and updates XtY in the same step.
C10_OneInversionThenUpdates ==
    (RollingRan /\ rolling.use_woodbury)
    => /\ rolling.ops = WoodburyOps(rolling.min_periods, LastT,
                                    rolling.args.window_size, rolling.args.x)
       /\ rolling.xty = WoodburyXtY(rolling.min_periods, LastT,
                                    rolling.args.window_size,
                                    rolling.args.x, rolling.args.y, rolling.k)

\* the same holds of every call with a window_size of at least 1
OneInversionThenUpdatesForWindows ==
    rolling.args.window_size >= 1 => C10_OneInversionThenUpdates

\* a returned Woodbury run that made a rank-1 and then a rank-2 update
RankOneThenRankTwoReached ==
    /\ rolling.pc = "returned" /\ rolling.use_woodbury
    /\ Len(rolling.ops) = 3
    /\ rolling.ops[1].op = "inv"
    /\ rolling.ops[2].op = "woodbury" /\ rolling.ops[2].rank = 1
    /\ rolling.ops[3].op = "woodbury" /\ rolling.ops[3].rank = 2
    /\ rolling.xty # WarmupXtY(rolling.args.x, rolling.args.y, rolling.min_periods, rolling.k)

---------------------------------------------------------------------------
(* Claims about solve_recursive_least_squares *)

RlsRan == rls.pc \in {"loop", "returned"}

\* the valid samples before t, in time order
RECURSIVE ValidBefore(_, _)
ValidBefore(is_valid, t) ==
    IF t = 0 THEN <<>>
    ELSE IF At(is_valid, t - 1) THEN Append(ValidBefore(is_valid, t - 1), t - 1)
    ELSE ValidBefore(is_valid, t - 1)

\* the coefficient vector the estimator is constructed with
RlsInitialCoef == unwrap_or(rls.args.initial_state_mean, Zeros(rls.n_features))

\* the trajectory has one row per sample; update has been called once for each
\* valid sample so far, in time order; the row of the last step is the
\* estimator's coefficient vector; the row of an invalid step repeats the row
\* before it (the initial coefficients at t = 0)
C5_Rows ==
    RlsRan =>
        /\ Len(rls.coefficients) = rls.n_samples
        /\ rls.updates = ValidBefore(rls.args.is_valid, rls.t)
        /\ rls.t >= 1 =>
               Row(rls.coefficients, rls.t - 1) = rls.recursive_least_squares.coef
        /\ \A u \in 0..(rls.t - 1) :
               ~At(rls.args.is_valid, u) =>
                   Row(rls.coefficients, u)
                     = IF u = 0 THEN RlsInitialCoef ELSE Row(rls.coefficients, u - 1)
        /\ rls.pc = "returned" => rls.t = rls.n_samples

\* a step of an invalid sample leaves coef, P and K as they are
C5_Frame ==
    (rls.pc = "loop" /\ rls'.t = rls.t + 1 /\ ~At(rls.args.is_valid, rls.t))
    => rls'.recursive_least_squares = rls.recursive_least_squares

\* C5: a step with is_valid[t] = false leaves the estimator unchanged and
\* row t repeats row t-1 (the initial coefficients at t = 0); every row t is
\* the coefficient vector after step t; there is one row per sample and one
\* update per valid sample, in time order.
C5_InvalidSamplesHoldState == [](C5_Rows) /\ [][C5_Frame]_vars

\* a returned run whose invalid step follows a valid one that moved the
\* coefficients, and is followed by another valid one
C5_Witness ==
    /\ rls.pc = "returned"
    /\ rls.n_samples = 3
    /\ rls.args.is_valid = <<TRUE, FALSE, TRUE>>
    /\ rls.updates = <<0, 2>>
    /\ Row(rls.coefficients, 0) # RlsInitialCoef
    /\ Row(rls.coefficients, 1) = Row(rls.coefficients, 0)
    /\ Row(rls.coefficients, 2) # Row(rls.coefficients, 1)

---------------------------------------------------------------------------
(* Claims about inv and solve_normal_equations *)

\* what the factorization named gives for the call
DenseResult(factorization) ==
    IF dense.fn = "inv"
    THEN (IF factorization = "cholesky" THEN CholeskyInverse(dense.array)
          ELSE LuInverse(dense.array))
    ELSE (IF factorization = "cholesky" THEN CholeskySolve(dense.array, dense.xty)
          ELSE LuSolve(dense.array, dense.xty))

\* C6: with use_cholesky, Cholesky is attempted first; when it succeeds its
\* result is returned and LU is not run; when it fails the diagnostic is
\* printed and the LU result is returned; without use_cholesky only LU runs
\* and nothing is printed.  Every call returns.
C6_CholeskyThenLu ==
    /\ dense.pc \in {"call", "returned"}
    /\ dense.pc = "returned" =>
         IF dense.use_cholesky
         THEN \E rounding \in Roundings :
              IF CholeskyOk(dense.array, rounding)
              THEN /\ dense.ran = <<"cholesky">>
                   /\ dense.printed = <<>>
                   /\ dense.out = DenseResult("cholesky")
              ELSE /\ dense.ran = <<"cholesky", "lu">>
                   /\ dense.printed = <<FallbackMsg>>
                   /\ dense.out = DenseResult("lu")
         ELSE /\ dense.ran = <<"lu">>
              /\ dense.printed = <<>>
              /\ dense.out = DenseResult("lu")

\* a call of inv whose Cholesky factorization failed and whose LU inverse is
\* finite
C6_Witness ==
    /\ dense.pc = "returned" /\ dense.fn = "inv" /\ dense.use_cholesky
    /\ Len(dense.array) = 2
    /\ CholeskyPivots(dense.array) = "not positive"
    /\ dense.printed = <<FallbackMsg>>
    /\ MatFinite(dense.out)

---------------------------------------------------------------------------
(* Claims about the parameter checks of the direct solvers *)

\* the parameters the claim calls invalid: alpha < 0, alpha <= 0, an
\* l1_ratio that is not within [0, 1] (a NaN counted as outside), or a method
\* that is not supported
InvalidParameters ==
    IF direct.fn = "solve_ols"
    THEN direct.solve_method \notin {Some("QR"), Some("SVD"), None}
    ELSE IF direct.fn = "solve_ridge"
    THEN \/ RLt(direct.alpha, R(0))
         \/ direct.solve_method \notin {Some("Cholesky"), Some("LU"), Some("SVD"), None}
    ELSE \/ RLe(direct.alpha, R(0))
         \/ ~RLe(R(0), unwrap_or(direct.l1_ratio, DefaultL1Ratio))
         \/ ~RLe(unwrap_or(direct.l1_ratio, DefaultL1Ratio), R(1))
         \/ direct.solve_method \notin {Some("CD"), None}

\* the call failed at its parameter checks (a later panic of the backend
\* leaves the method the checks chose)
FailedAtEntry == direct.pc = "panicked" /\ direct.method = "panic"

\* C7: each direct solver fails at its entry, before any coefficient is
\* computed, exactly on invalid parameters; ridge alpha = 0 and elastic-net
\* l1_ratio = 0 and 1 are accepted.
C7_FailsExactlyOnInvalidParameters ==
    /\ direct.pc # "call" => (FailedAtEntry <=> InvalidParameters)
    /\ direct.pc # "call" => (direct.method = "panic" <=> FailedAtEntry)
    /\ direct.pc = "panicked" => ~direct.computed
    /\ direct.pc = "returned" => direct.computed

\* the parameters the checks reject: as InvalidParameters, with alpha read
\* by the negation of the accepting comparison, so that a NaN alpha is
\* rejected too
RejectedParameters ==
    IF direct.fn = "solve_ols"
    THEN direct.solve_method \notin {Some("QR"), Some("SVD"), None}
    ELSE IF direct.fn = "solve_ridge"
    THEN \/ ~RLe(R(0), direct.alpha)
         \/ direct.solve_method \notin {Some("Cholesky"), Some("LU"), Some("SVD"), None}
    ELSE \/ ~RLt(R(0), direct.alpha)
         \/ ~RLe(R(0), unwrap_or(direct.l1_ratio, DefaultL1Ratio))
         \/ ~RLe(unwrap_or(direct.l1_ratio, DefaultL1Ratio), R(1))
         \/ direct.solve_method \notin {Some("CD"), None}

\* C7 amended: each direct solver fails at its entry, before any coefficient
\* is computed, exactly when the method is not one it supports, or the ridge
\* alpha is not >= 0, or the elastic-net alpha is not > 0 or l1_ratio is not
\* within [0, 1], a NaN failing each of these comparisons; ridge alpha = 0
\* and elastic-net l1_ratio = 0 and 1 are accepted.
C7_FailsExactlyOnRejectedParameters ==
    /\ direct.pc # "call" => (FailedAtEntry <=> RejectedParameters)
    /\ direct.pc # "call" => (direct.method = "panic" <=> FailedAtEntry)
    /\ direct.pc = "panicked" => ~direct.computed
    /\ direct.pc = "returned" => direct.computed
    /\ (direct.pc # "call" /\ direct.fn = "solve_ridge" /\ direct.alpha = R(0)
          /\ direct.solve_method = None) => ~FailedAtEntry
    /\ (direct.pc # "call" /\ direct.fn = "solve_elastic_net"
          /\ direct.alpha = R(1) /\ direct.l1_ratio \in {Some(R(0)), Some(R(1))}
          /\ direct.solve_method = None) => ~FailedAtEntry

\* a ridge call with a NaN alpha and a supported method that failed at its
\* entry
C7_Witness ==
    /\ FailedAtEntry /\ direct.fn = "solve_ridge"
    /\ direct.alpha = NaN /\ direct.solve_method = Some("SVD")

\* a ridge call with alpha = 0 that went on to return
C7_WitnessBoundary ==
    /\ direct.pc = "returned" /\ direct.fn = "solve_ridge"
    /\ direct.alpha = R(0) /\ direct.solve_method = Some("SVD")

---------------------------------------------------------------------------
(* Claims about solve_elastic_net *)

EnetEntered == enet.pc \notin {"idle", "call", "panicked"}

\* the Euclidean norm of d is below tol
NormBelow(d, tol) ==
    /\ IsFinite(tol) /\ tol[1] > 0
    /\ VecFinite(d)
    /\ RLt(SumTo([i \in 1..Len(d) |-> RMul(d[i], d[i])], Len(d)), RMul(tol, tol))

\* at most max_iter passes complete; no pass but the last was below tol; a
\* check is made only with all k coordinates updated; the call returns after
\* a pass below tol or after max_iter passes, and with max_iter = 0 it
\* returns the zero vector; valid parameters never panic
C8_Passes ==
    /\ (enet.pc = "panicked")
         => elastic_net_method(enet.args.alpha, enet.args.l1_ratio,
                               enet.args.solve_method) = "panic"
    /\ EnetEntered =>
         /\ Len(enet.checks) = enet.it
         /\ enet.it <= enet.max_iter
         /\ \A p \in 1..(Len(enet.checks) - 1) : ~enet.checks[p]
         /\ enet.pc = "check" => enet.j = enet.n_features
         /\ enet.pc \in {"addback", "threshold", "subtract"} =>
                enet.j < enet.n_features /\ enet.it < enet.max_iter
         /\ enet.pc # "returned" => \A p \in 1..Len(enet.checks) : ~enet.checks[p]
         /\ enet.pc = "returned" =>
                \/ enet.it = enet.max_iter
                \/ enet.checks # <<>> /\ enet.checks[Len(enet.checks)]
         /\ (enet.pc = "returned" /\ enet.max_iter = 0) => enet.w = Zeros(enet.n_features)

\* the outcome of the check that ended the last pass is whether the norm of
\* the change of w over that pass is below tol
C8_Outcome ==
    (EnetEntered /\ enet.pc \in {"for", "returned"} /\ enet.it >= 1)
    => enet.checks[enet.it] = NormBelow(VecSub(enet.w, enet.w_old), enet.tol)

\* an upper bound of the steps the call has left: a pass is 3 steps per
\* coordinate, its begin and its check
StepsLeft(e) ==
    LET pass == 3 * e.n_features + 2
        rest == (e.max_iter - e.it - 1) * pass + 2
    IN  IF e.pc \in {"returned", "panicked"} THEN 0
        ELSE IF e.pc = "call" THEN unwrap_or(e.args.max_iter, DefaultMaxIter) * pass + 2
        ELSE IF e.pc = "for" THEN (e.max_iter - e.it) * pass + 1
        ELSE IF e.pc = "check" THEN rest
        ELSE rest + 3 * (e.n_features - e.j)
                  - (IF e.pc = "threshold" THEN 1 ELSE IF e.pc = "subtract" THEN 2 ELSE 0)

\* every step takes the call closer to its return, a convergence check is
\* made at the end of a pass and nowhere else, and it leaves w as it is
C8_Step ==
    /\ StepsLeft(enet') < StepsLeft(enet)
    /\ StepsLeft(enet') >= 0
    /\ (enet.pc # "call" /\ enet'.checks # enet.checks)
       => (enet.pc = "check" /\ enet.j = enet.n_features /\ enet'.w = enet.w)

EnetDone == enet.pc \in {"returned", "panicked"}

\* C8: solve_elastic_net terminates after at most max_iter full passes; the
\* convergence check runs only after a complete pass; the loop stops after
\* the first pass whose change is below tol in norm; when max_iter passes
\* complete without that, w is returned without an error (the zero vector
\* when max_iter = 0).
C8_TerminatesWithinMaxIter ==
    /\ [](C8_Passes /\ C8_Outcome)
    /\ [][C8_Step]_vars

\* under weak fairness of the call's steps the call ends
EnetTerminates == <>(EnetDone)

\* a call that returned after its second pass, the first not below tol
C8_Witness ==
    /\ enet.pc = "returned"
    /\ enet.checks = <<FALSE, TRUE>>
    /\ enet.w # enet.w_old
    /\ enet.n_features = 2

\* a call that returned at the cap without a pass below tol
C8_WitnessCap ==
    /\ enet.pc = "returned"
    /\ enet.max_iter = 2
    /\ enet.checks = <<FALSE, FALSE>>

\* the residuals are y - X w between coordinate updates
ResidualsAreYMinusXw ==
    (EnetEntered /\ enet.pc \in {"for", "addback", "check", "returned"})
    => enet.residuals = VecSub(enet.args.y, MatVec(enet.args.x, enet.w))

\* y - sum over i # j of x_i * w_i
PartialResidual(e, j) ==
    LET n == e.n_samples
        others == {i \in 1..e.n_features : i # j + 1}
    IN  [t \in 1..n |->
            RSub(e.args.y[t],
                 SumOver(others, [i \in others |-> RMul(e.args.x[t][i], e.w[i])]))]

\* inside the update of coordinate j, between the add-back and the subtract,
\* the residuals leave out coordinate j
ResidualsLeaveOutJ ==
    (EnetEntered /\ enet.pc \in {"threshold", "subtract"})
    => enet.residuals = PartialResidual(enet, enet.j)

\* the coordinates are updated in the order 0..k-1: during a pass the
\* coordinates not yet updated still hold the values of the pass before
LaterCoordinatesUntouched ==
    (EnetEntered /\ enet.pc \in {"addback", "threshold", "subtract"})
    => LET next == IF enet.pc = "subtract" THEN enet.j + 2 ELSE enet.j + 1
       IN  \A i \in next..enet.n_features : enet.w[i] = enet.w_old[i]

\* w[j] has been computed from the partial residual of the current w, in
\* which the coordinates below j hold the values of this pass
UpdateFromPartialResidual ==
    (EnetEntered /\ enet.pc = "subtract")
    => LET jj == enet.j + 1
           xj == Col(enet.args.x, jj)
       IN  enet.w[jj] =
               RDiv(soft_threshold(Dot(xj, PartialResidual(enet, enet.j)),
                                   RMul(enet.alpha, enet.l1_ratio), enet.positive),
                    RAdd(Dot(xj, xj), RMul(enet.alpha, RSub(R(1), enet.l1_ratio))))

\* C11: in solve_elastic_net, before the first pass and after every completed
\* coordinate update residuals = y - X*w for the current w; inside the update
\* of coordinate j, between the add-back and the subtract, residuals =
\* y - sum over i # j of x_i*w_i, and w[j] is computed from that partial
\* residual using the already-updated coordinates below j of the same pass,
\* in the fixed cyclic order 0..k-1.
C11_ResidualIsYMinusXw ==
    /\ ResidualsAreYMinusXw
    /\ ResidualsLeaveOutJ
    /\ LaterCoordinatesUntouched
    /\ UpdateFromPartialResidual

\* no coefficient is non-finite
EnetFinite == EnetEntered => VecFinite(enet.w) /\ VecFinite(enet.residuals)

\* the residual invariant as long as no denominator x_j.x_j + alpha*(1 - l1_ratio)
\* has been zero
ResidualInvariantWhileFinite ==
    EnetFinite => (/\ ResidualsAreYMinusXw
                   /\ ResidualsLeaveOutJ
                   /\ LaterCoordinatesUntouched
                   /\ UpdateFromPartialResidual)


---------------------------------------------------------------------------
(* Claims about RecursiveLeastSquares *)

\* the members of S in increasing order
Ascending(S) ==
    CHOOSE s \in [1..Cardinality(S) -> S] :
        \A a, b \in 1..Cardinality(S) : a < b => s[a] < s[b]

\* the rows and columns S of A
Principal(A, S) ==
    LET s == Ascending(S)
    IN  [a \in 1..Cardinality(S) |-> [b \in 1..Cardinality(S) |-> A[s[a]][s[b]]]]

IsSymmetric(A) == MatFinite(A) /\ A = Transpose(A)

RECURSIVE LcmOf(_)
LcmOf(S) ==
    IF S = {} THEN 1
    ELSE LET d == CHOOSE d \in S : TRUE
             l == LcmOf(S \ {d})
         IN  (l \div GCD(l, d)) * d

RECURSIVE GcdOf(_)
GcdOf(S) ==
    IF S = {} THEN 0
    ELSE LET d == CHOOSE d \in S : TRUE IN GCD(d, GcdOf(S \ {d}))

\* a positive multiple of the finite matrix A with coprime integer entries:
\* it is positive semi-definite exactly when A is
Primitive(A) ==
    LET I    == 1..NRows(A)
        D    == LcmOf({A[a][b][2] : a, b \in I})
        ints == [a \in I |-> [b \in I |-> A[a][b][1] * (D \div A[a][b][2])]]
        g    == GcdOf({Abs(ints[a][b]) : a, b \in I})
    IN  [a \in I |-> [b \in I |-> R(ints[a][b] \div (IF g = 0 THEN 1 ELSE g))]]

\* a symmetric matrix is positive semi-definite when no principal minor is
\* negative
IsPSD(A) ==
    /\ IsSymmetric(A)
    /\ \A S \in (SUBSET (1..NRows(A))) \ {{}} :
           RLe(R(0), Det(Principal(Primitive(A), S)))

RlsConstructed == rls.pc \in {"loop", "returned"}

\* lam > 0 and forgetting_factor in (0, 1]
RlsWellFormed ==
    /\ RLt(R(0), unwrap_or(rls.args.initial_state_covariance, R(DefaultLam)))
    /\ RLt(R(0), rls.recursive_least_squares.forgetting_factor)
    /\ RLe(rls.recursive_least_squares.forgetting_factor, R(1))

\* P is symmetric positive semi-definite
C12_Psd ==
    (RlsConstructed /\ RlsWellFormed) => IsPSD(rls.recursive_least_squares.p)

\* an update takes r and K from the P before it, the residual from the coef
\* before it, and P from the new K and the same r
C12_Update ==
    (RlsConstructed /\ rls'.updates # rls.updates)
    => LET old == rls.recursive_least_squares
           new == rls'.recursive_least_squares
           ff  == old.forgetting_factor
           x   == Row(rls.args.x, rls.t)
           y   == At(rls.args.y, rls.t)
           k   == rls.n_features
           xPx == SumTo([a \in 1..k |->
                           SumTo([b \in 1..k |-> RMul(RMul(x[a], old.p[a][b]), x[b])], k)], k)
           r   == RAdd(R(1), RDiv(xPx, ff))
           e   == RSub(y, Dot(x, old.coef))
       IN  /\ new.k = [a \in 1..k |-> RDiv(Dot(old.p[a], x), RMul(r, ff))]
           /\ new.coef = [a \in 1..k |-> RAdd(old.coef[a], RMul(new.k[a], e))]
           /\ new.p = [a \in 1..k |-> [b \in 1..k |->
                          RSub(RDiv(old.p[a][b], ff), RMul(r, RMul(new.k[a], new.k[b])))]]
           /\ new.forgetting_factor = ff

\* C12: for a RecursiveLeastSquares constructed with lam > 0 and
\* forgetting_factor in (0,1], after any sequence of updates P is symmetric
\* positive semi-definite; each update computes r and the gain K from the
\* pre-update P, the residual from the pre-update coef, and sets P to
\* P/forgetting_factor - r*(K*K^T) with the new K and that same r.
C12_CovarianceStaysPSD == [](C12_Psd) /\ [][C12_Update]_vars

\* two updates with forgetting have made P a matrix with off-diagonal entries
C12_Witness ==
    /\ RlsConstructed /\ RlsWellFormed
    /\ rls.n_features = 2
    /\ Len(rls.updates) >= 2
    /\ rls.recursive_least_squares.forgetting_factor = Frac(1, 2)
    /\ rls.recursive_least_squares.p[1][2] # R(0)
    /\ rls.recursive_least_squares.k # Zeros(2)
    /\ IsPSD(rls.recursive_least_squares.p)

=============================================================================
